---- MODULE Spec2Model ----
(***************************************************************************)
(* Model of the vcsv CSV reader (fond-of-vertigo/vcsv): the CSVReader      *)
(* state (current row, header mapping, input position), its operations     *)
(* (New, SetHeader, ReadHeader, Next, Get, GetByColumnIndex, Header,       *)
(* UnmarshalLine) and the field binding pipeline (readTag ->               *)
(* handleFieldByTagOptions -> convertToType -> rv.Set).                    *)
(*                                                                         *)
(* Go strings are modelled as sequences of one-character strings, so that  *)
(* splitting, trimming, prefix tests and number parsing are computed the   *)
(* way the code computes them.  Positions are 0-based as in Go; Seq        *)
(* accesses add one.                                                       *)
(***************************************************************************)
EXTENDS Integers, Sequences, FiniteSets, TLC

(***************************************************************************)
(* Bounds of the explored inputs.                                          *)
(***************************************************************************)
\* largest header line given to WithReadHeader
MaxHeaderLine == 1
\* largest position asked from GetByColumnIndex
MaxGetIndex == 3

(***************************************************************************)
(* Strings.                                                                *)
(***************************************************************************)
Digits == {"0", "1", "2", "3", "4", "5", "6", "7", "8", "9"}

DigitVal(c) ==
    CASE c = "0" -> 0 [] c = "1" -> 1 [] c = "2" -> 2 [] c = "3" -> 3
      [] c = "4" -> 4 [] c = "5" -> 5 [] c = "6" -> 6 [] c = "7" -> 7
      [] c = "8" -> 8 [] c = "9" -> 9

\* unicode.IsSpace restricted to the characters of the model
IsSpace(c) == c \in {" ", "\t"}

Range(s) == {s[i] : i \in 1..Len(s)}

Drop(s, n) == SubSeq(s, n + 1, Len(s))

HasPrefix(s, p) == Len(s) >= Len(p) /\ SubSeq(s, 1, Len(p)) = p

AllDigits(s) == \A i \in 1..Len(s) : s[i] \in Digits

RECURSIVE DecValue(_)
DecValue(s) ==
    IF s = <<>> THEN 0 ELSE 10 * DecValue(SubSeq(s, 1, Len(s) - 1)) + DigitVal(s[Len(s)])

\* strings.TrimSpace
TrimSpace(s) ==
    LET nonSpace == {i \in 1..Len(s) : ~IsSpace(s[i])}
    IN  IF nonSpace = {} THEN <<>>
        ELSE LET lo == CHOOSE i \in nonSpace : \A j \in nonSpace : i <= j
                 hi == CHOOSE i \in nonSpace : \A j \in nonSpace : i >= j
             IN  SubSeq(s, lo, hi)

\* strings.Split(s, ","): always at least one token
RECURSIVE Split(_)
Split(s) ==
    LET commas == {i \in 1..Len(s) : s[i] = ","}
    IN  IF commas = {} THEN <<s>>
        ELSE LET c == CHOOSE i \in commas : \A j \in commas : i <= j
             IN  <<SubSeq(s, 1, c - 1)>> \o Split(Drop(s, c))

(***************************************************************************)
(* Go types of struct fields.  A type is its base name and its pointer     *)
(* depth; the bases are the builtin kinds the model explores, time.Time    *)
(* and user types in the style of the test fixtures (RecordTime, AliasTime)*)
(*   Decimal  a struct with an UnmarshalText method on its pointer         *)
(*   Codes    a []byte with an UnmarshalText method on its pointer         *)
(*   Level    an int8 with an UnmarshalText method on its pointer          *)
(*   Plain    a struct without methods                                     *)
(***************************************************************************)
Ty(base, ptr) == [base |-> base, ptr |-> ptr]

\* reflect.PtrTo
PtrTo(t) == [t EXCEPT !.ptr = @ + 1]

\* reflect.Type.Elem of a pointer type
Elem(t) == [t EXCEPT !.ptr = @ - 1]

\* reflect.Type.Kind
Kind(t) ==
    IF t.ptr > 0 THEN "ptr"
    ELSE CASE t.base = "string"  -> "string"
           [] t.base = "int8"    -> "int8"
           [] t.base = "uint8"   -> "uint8"
           [] t.base = "bool"    -> "bool"
           [] t.base = "Level"   -> "int8"
           [] t.base = "Time"    -> "struct"
           [] t.base = "Decimal" -> "struct"
           [] t.base = "Plain"   -> "struct"
           [] t.base = "Codes"   -> "slice"

\* reflect.Type.Bits of the integer kinds of the model
Bits(t) == 8

\* bases whose pointer type has an UnmarshalText method
DecodableBases == {"Time", "Decimal", "Codes", "Level"}

\* reflect.Type.Implements(encoding.TextUnmarshaler): pointer receivers only
Implements(t) == t.ptr = 1 /\ t.base \in DecodableBases

TimeType == Ty("Time", 0)

(***************************************************************************)
(* Go values: the dynamic type, and the content as a number (n), a text    *)
(* (s) or a nil pointer.  A time.Time is the number year*10000 + month*100 *)
(* + day.  A value produced by a user decoder is the decoded text.         *)
(***************************************************************************)
Val(t, n, s, isNil) == [ty |-> t, n |-> n, s |-> s, nil |-> isNil]

\* time.Date(year, month, day, 0, 0, 0, 0, UTC)
Date(year, month, day) == year * 10000 + month * 100 + day

\* reflect.Zero
Zero(t) ==
    IF t.ptr > 0 THEN Val(t, 0, <<>>, TRUE)
    ELSE IF t.base = "Time" THEN Val(t, Date(1, 1, 1), <<>>, FALSE)
    ELSE Val(t, 0, <<>>, FALSE)

\* reflect.Value.Set panics unless the value's type is assignable to the field's
AssignableTo(v, t) == v.ty = t

(***************************************************************************)
(* Errors: what the message names (field, raw tag) and the wrapped cause.  *)
(***************************************************************************)
NoTag == [has |-> FALSE, csv |-> <<>>]

Err(kind, hasField, field, hasTag, tag, cause) ==
    [kind |-> kind, hasField |-> hasField, field |-> field,
     hasTag |-> hasTag, tag |-> tag, cause |-> cause]

NilErr == Err("nil", FALSE, "", FALSE, NoTag, "nil")

\* an error of strconv, time or a decoder, carrying no field context
Bare(kind) == Err(kind, FALSE, "", FALSE, NoTag, "nil")

Res(ok, val, err, calls) == [ok |-> ok, val |-> val, err |-> err, calls |-> calls]

NoVal == Val(Ty("string", 0), 0, <<>>, FALSE)

Fail(err) == Res(FALSE, NoVal, err, <<>>)

(***************************************************************************)
(* The state: the CSVReader's fields, the input behind its csv.Reader, the *)
(* caller's struct, the user decoder, and the result of the last call.     *)
(***************************************************************************)
VARIABLES
    phase,          \* "unbuilt" before New, "ready" after, "failed" when New returned an error
    options,        \* the options New is called with (none left after the call)
    input,          \* the records csv.Reader.Read will return, in order
    pos,            \* how many of them have been read
    columns,        \* CSVReader.columns
    columnIndex,    \* CSVReader.columnIndex
    headerAtLine,   \* CSVReader.headerAtLine
    fields,         \* the struct type handed to UnmarshalLine: its fields in declaration order
    target,         \* the struct value: one Go value per field
    ret             \* what the last call returned

vars == <<phase, options, input, pos, columns, columnIndex, headerAtLine,
          fields, target, ret>>

(***************************************************************************)
(* strconv                                                                 *)
(***************************************************************************)
\* strconv.ParseUint(s, 10, bitSize)
ParseUint(s, bitSize) ==
    IF s = <<>> \/ ~AllDigits(s) THEN [ok |-> FALSE, n |-> 0, cause |-> "syntax"]
    ELSE IF DecValue(s) >= 2 ^ bitSize THEN [ok |-> FALSE, n |-> 0, cause |-> "range"]
    ELSE [ok |-> TRUE, n |-> DecValue(s), cause |-> "nil"]

\* a ParseInt that keeps the low bitSize bits of an out-of-range literal
ParseIntWrapping(s, bitSize) ==
    IF s = <<>> THEN [ok |-> FALSE, n |-> 0, cause |-> "syntax"]
    ELSE LET neg == s[1] = "-"
             rest == IF s[1] \in {"+", "-"} THEN Drop(s, 1) ELSE s
             cutoff == 2 ^ (bitSize - 1)
             n == IF neg THEN 0 - DecValue(rest) ELSE DecValue(rest)
         IN  IF rest = <<>> \/ ~AllDigits(rest)
             THEN [ok |-> FALSE, n |-> 0, cause |-> "syntax"]
             ELSE [ok |-> TRUE, n |-> ((n + cutoff) % (2 * cutoff)) - cutoff, cause |-> "nil"]

\* strconv.ParseInt(s, 10, bitSize)
ParseInt(s, bitSize) ==
    IF s = <<>> THEN [ok |-> FALSE, n |-> 0, cause |-> "syntax"]
    ELSE LET neg == s[1] = "-"
             rest == IF s[1] \in {"+", "-"} THEN Drop(s, 1) ELSE s
             cutoff == 2 ^ (bitSize - 1)
         IN  IF rest = <<>> \/ ~AllDigits(rest)
             THEN [ok |-> FALSE, n |-> 0, cause |-> "syntax"]
             ELSE IF (~neg /\ DecValue(rest) >= cutoff) \/ (neg /\ DecValue(rest) > cutoff)
             THEN [ok |-> FALSE, n |-> 0, cause |-> "range"]
             ELSE [ok |-> TRUE, n |-> IF neg THEN 0 - DecValue(rest) ELSE DecValue(rest),
                   cause |-> "nil"]

\* strconv.Atoi on the short strings of a tag: an optional sign and digits
Atoi(s) ==
    LET rest == IF s # <<>> /\ s[1] \in {"+", "-"} THEN Drop(s, 1) ELSE s
    IN  IF rest = <<>> \/ ~AllDigits(rest) THEN [ok |-> FALSE, n |-> 0, cause |-> "syntax"]
        ELSE [ok |-> TRUE, n |-> IF s[1] = "-" THEN 0 - DecValue(rest) ELSE DecValue(rest),
              cause |-> "nil"]

TrueLiterals ==
    {<<"1">>, <<"t">>, <<"T">>, <<"T", "R", "U", "E">>, <<"t", "r", "u", "e">>,
     <<"T", "r", "u", "e">>}

FalseLiterals ==
    {<<"0">>, <<"f">>, <<"F">>, <<"F", "A", "L", "S", "E">>, <<"f", "a", "l", "s", "e">>,
     <<"F", "a", "l", "s", "e">>}

\* strconv.ParseBool
ParseBool(s) ==
    IF s \in TrueLiterals THEN [ok |-> TRUE, n |-> 1, cause |-> "nil"]
    ELSE IF s \in FalseLiterals THEN [ok |-> TRUE, n |-> 0, cause |-> "nil"]
    ELSE [ok |-> FALSE, n |-> 0, cause |-> "syntax"]

(***************************************************************************)
(* time.Parse for layouts built from the reference elements 2006, 01 and   *)
(* 02 and literal separators (the layouts of the model use no other        *)
(* reference element).                                                     *)
(***************************************************************************)
StdYear == <<"2", "0", "0", "6">>
StdMonth == <<"0", "1">>
StdDay == <<"0", "2">>

\* time.nextStdChunk: the literal prefix, the first reference element, the rest
nextStdChunk(layout) ==
    LET starts == {i \in 1..Len(layout) :
                      \/ HasPrefix(Drop(layout, i - 1), StdYear)
                      \/ HasPrefix(Drop(layout, i - 1), StdMonth)
                      \/ HasPrefix(Drop(layout, i - 1), StdDay)}
    IN  IF starts = {} THEN [prefix |-> layout, std |-> <<>>, suffix |-> <<>>]
        ELSE LET i == CHOOSE k \in starts : \A j \in starts : k <= j
                 rest == Drop(layout, i - 1)
                 std == IF HasPrefix(rest, StdYear) THEN StdYear
                        ELSE IF HasPrefix(rest, StdMonth) THEN StdMonth ELSE StdDay
             IN  [prefix |-> SubSeq(layout, 1, i - 1), std |-> std,
                  suffix |-> Drop(rest, Len(std))]

\* time.daysIn
daysIn(month, year) ==
    IF month = 2
    THEN IF year % 4 = 0 /\ (year % 100 # 0 \/ year % 400 = 0) THEN 29 ELSE 28
    ELSE IF month \in {4, 6, 9, 11} THEN 30 ELSE 31

TimeErr == [ok |-> FALSE, n |-> 0, cause |-> "timeparse"]

\* the loop of time.parse: year, month and day start at 0, -1 and -1
RECURSIVE parseLoop(_, _, _, _, _)
parseLoop(layout, value, year, month, day) ==
    LET chunk == nextStdChunk(layout)
        v == Drop(value, Len(chunk.prefix))
    IN  IF ~HasPrefix(value, chunk.prefix) THEN TimeErr
        ELSE IF chunk.std = <<>>
        THEN IF v # <<>> THEN TimeErr       \* extra text
             ELSE LET m == IF month < 0 THEN 1 ELSE month
                      d == IF day < 0 THEN 1 ELSE day
                  IN  IF d < 1 \/ d > daysIn(m, year) THEN TimeErr
                      ELSE [ok |-> TRUE, n |-> Date(year, m, d), cause |-> "nil"]
        ELSE IF chunk.std = StdYear
        THEN IF Len(v) < 4 \/ ~AllDigits(SubSeq(v, 1, 4)) THEN TimeErr
             ELSE parseLoop(chunk.suffix, Drop(v, 4), DecValue(SubSeq(v, 1, 4)), month, day)
        ELSE IF Len(v) < 2 \/ ~AllDigits(SubSeq(v, 1, 2)) THEN TimeErr
        ELSE IF chunk.std = StdMonth
        THEN IF DecValue(SubSeq(v, 1, 2)) <= 0 \/ DecValue(SubSeq(v, 1, 2)) > 12 THEN TimeErr
             ELSE parseLoop(chunk.suffix, Drop(v, 2), year, DecValue(SubSeq(v, 1, 2)), day)
        ELSE parseLoop(chunk.suffix, Drop(v, 2), year, month, DecValue(SubSeq(v, 1, 2)))

\* time.Parse(layout, value)
timeParse(layout, value) == parseLoop(layout, value, 0, 0 - 1, 0 - 1)

(***************************************************************************)
(* Struct tags.  A field's raw tag either has a csv key with a value or    *)
(* has none; reflect.StructTag.Get("csv") is the value, or "".             *)
(***************************************************************************)
Tag(csv) == [has |-> TRUE, csv |-> csv]

tagGet(tag) == IF tag.has THEN tag.csv ELSE <<>>

IndexPrefix == <<"i", "n", "d", "e", "x", ":">>
FormatPrefix == <<"f", "o", "r", "m", "a", "t", ":">>

TagOptions(columnName, index, format) ==
    [columnName |-> columnName, index |-> index, format |-> format]

\* parseIndex: strconv.Atoi of what follows `index:`
parseIndex(opt) == Atoi(Drop(opt, 6))

\* parseFormat: what follows `format:`
parseFormat(opt) == Drop(opt, 7)

\* parseTagOption, case index: the index is assigned unless Atoi failed
indexOption(parsed, tag) ==
    IF parsed.ok THEN [ok |-> TRUE, tag |-> [tag EXCEPT !.index = parsed.n]]
    ELSE [ok |-> FALSE, tag |-> tag]

\* a parseTagOption that keeps the first column name it has read
trimmedTagOptionFirstName(opt, tag) ==
    IF HasPrefix(opt, IndexPrefix) THEN indexOption(parseIndex(opt), tag)
    ELSE IF HasPrefix(opt, FormatPrefix)
    THEN [ok |-> TRUE, tag |-> [tag EXCEPT !.format = parseFormat(opt)]]
    ELSE IF tag.columnName # <<>> THEN [ok |-> TRUE, tag |-> tag]
    ELSE [ok |-> TRUE, tag |-> [tag EXCEPT !.columnName = opt]]

\* parseTagOption after opt = strings.TrimSpace(opt)
trimmedTagOption(opt, tag) ==
    IF HasPrefix(opt, IndexPrefix) THEN indexOption(parseIndex(opt), tag)
    ELSE IF HasPrefix(opt, FormatPrefix)
    THEN [ok |-> TRUE, tag |-> [tag EXCEPT !.format = parseFormat(opt)]]
    ELSE [ok |-> TRUE, tag |-> [tag EXCEPT !.columnName = opt]]

\* parseTagOption: one token applied to the options read so far
parseTagOption(opt, tag) == trimmedTagOption(TrimSpace(opt), tag)

\* the loop of readTag over the tokens, stopping at the first error
RECURSIVE readTagLoop(_, _)
RECURSIVE readTagNext(_, _)
readTagLoop(opts, tag) ==
    IF opts = <<>> THEN [ok |-> TRUE, tag |-> tag]
    ELSE readTagNext(Tail(opts), parseTagOption(Head(opts), tag))

\* the loop of readTag after one token: r is what parseTagOption returned
readTagNext(opts, r) == IF r.ok THEN readTagLoop(opts, r.tag) ELSE r

\* what readTag returns after its loop
readTagResult(r) ==
    [skip |-> FALSE, ok |-> r.ok, tagOpts |-> r.tag,
     err |-> IF r.ok THEN NilErr ELSE Bare("atoi")]

\* readTag's nil, nil return
SkipTag == [skip |-> TRUE, ok |-> TRUE, tagOpts |-> TagOptions(<<>>, 0 - 1, <<>>), err |-> NilErr]

\* readTag without the test for the tag "-"
readTagDashIsName(tag) ==
    IF tagGet(tag) = <<>> THEN SkipTag
    ELSE readTagResult(readTagLoop(Split(tagGet(tag)), TagOptions(<<>>, 0 - 1, <<>>)))

\* readTag: skip is the nil, nil return; otherwise the options or the Atoi error
readTag(tag) ==
    IF tagGet(tag) = <<>> \/ tagGet(tag) = <<"-">> THEN SkipTag
    ELSE readTagResult(readTagLoop(Split(tagGet(tag)), TagOptions(<<>>, 0 - 1, <<>>)))

(***************************************************************************)
(* Conversion (converter.go)                                               *)
(***************************************************************************)
\* the texts the UnmarshalText of a user type returns an error for
Rejects(targetType) ==
    IF targetType.base = "Codes" THEN {<<"x">>} ELSE {<<>>, <<"x">>}

\* encoding.TextUnmarshaler.UnmarshalText of the user's type: it rejects some
\* texts and otherwise stores the text
UnmarshalText(targetType, text) ==
    IF text \in Rejects(targetType) THEN [ok |-> FALSE, val |-> NoVal]
    ELSE [ok |-> TRUE, val |-> Val(targetType, 0, text, FALSE)]

determineTargetType(t) == IF Kind(t) = "ptr" THEN Elem(t) ELSE t

handleEmptyValue(fieldType, targetType) ==
    IF Kind(fieldType) = "struct" THEN Zero(fieldType) ELSE Zero(PtrTo(targetType))

\* handleUnmarshalerConversion from the call of UnmarshalText on: d is what the
\* decoder returned for trimmedValue; calls records the texts it was invoked with
decoded(d, trimmedValue, fieldType, targetType) ==
    IF ~d.ok THEN Res(FALSE, NoVal, Bare("decoder"), <<trimmedValue>>)
    ELSE IF Kind(fieldType) = "ptr"
    THEN Res(TRUE, [d.val EXCEPT !.ty = PtrTo(targetType)], NilErr, <<trimmedValue>>)
    ELSE Res(TRUE, d.val, NilErr, <<trimmedValue>>)

\* handleUnmarshalerConversion from the trimmed value on
decodeTrimmed(trimmedValue, fieldType, targetType) ==
    decoded(UnmarshalText(targetType, trimmedValue), trimmedValue, fieldType, targetType)

\* handleUnmarshalerConversion without the TrimSpace
handleUnmarshalerConversionUntrimmed(value, fieldType, targetType) ==
    IF value = <<>> THEN Res(TRUE, handleEmptyValue(fieldType, targetType), NilErr, <<>>)
    ELSE decodeTrimmed(value, fieldType, targetType)

handleUnmarshalerConversion(value, fieldType, targetType) ==
    IF value = <<>> THEN Res(TRUE, handleEmptyValue(fieldType, targetType), NilErr, <<>>)
    ELSE decodeTrimmed(TrimSpace(value), fieldType, targetType)

convertTextUnmarshalerType(value, fieldType) ==
    IF Implements(PtrTo(determineTargetType(fieldType)))
    THEN handleUnmarshalerConversion(value, fieldType, determineTargetType(fieldType))
    ELSE Fail(Bare("unsupported"))

\* the result r of a strconv or time parse: the error, or the number converted
\* to the field's type
Converted(r, t) ==
    IF r.ok THEN Res(TRUE, Val(t, r.n, <<>>, FALSE), NilErr, <<>>) ELSE Fail(Bare(r.cause))

convertByTypes(value, fieldType, tagOpts) ==
    IF fieldType = TimeType THEN Converted(timeParse(tagOpts.format, value), fieldType)
    ELSE convertTextUnmarshalerType(value, fieldType)

\* a convertToType that tries the text decoder of the type before its kind
convertToTypeDecoderFirst(value, field, tagOpts) ==
    IF Implements(PtrTo(determineTargetType(field.type)))
    THEN convertTextUnmarshalerType(value, field.type)
    ELSE CASE Kind(field.type) = "int8"   ->
                  Converted(ParseInt(value, Bits(field.type)), field.type)
           [] Kind(field.type) = "uint8"  ->
                  Converted(ParseUint(value, Bits(field.type)), field.type)
           [] Kind(field.type) = "bool"   -> Converted(ParseBool(value), field.type)
           [] Kind(field.type) = "string" ->
                  Res(TRUE, Val(field.type, 0, value, FALSE), NilErr, <<>>)
           [] OTHER                       -> convertByTypes(value, field.type, tagOpts)

convertToType(value, field, tagOpts) ==
    LET t == field.type
    IN  CASE Kind(t) = "int8"   -> Converted(ParseInt(value, Bits(t)), t)
          [] Kind(t) = "uint8"  -> Converted(ParseUint(value, Bits(t)), t)
          [] Kind(t) = "bool"   -> Converted(ParseBool(value), t)
          [] Kind(t) = "string" -> Res(TRUE, Val(t, 0, value, FALSE), NilErr, <<>>)
          [] OTHER              -> convertByTypes(value, t, tagOpts)

(***************************************************************************)
(* CSVReader accessors (reader.go)                                         *)
(***************************************************************************)
\* SetHeader: the mapping built from a column list; a repeated name keeps its last position
SetHeader(cols) ==
    [name \in Range(cols) |->
        (CHOOSE i \in 1..Len(cols) :
            cols[i] = name /\ \A j \in 1..Len(cols) : cols[j] = name => j <= i) - 1]

\* a Header sorted by decreasing position
RECURSIVE HeaderFromDescending(_)
HeaderFromDescending(names) ==
    IF names = {} THEN <<>>
    ELSE LET k == CHOOSE n \in names : \A m \in names : columnIndex[n] >= columnIndex[m]
         IN  <<k>> \o HeaderFromDescending(names \ {k})

\* Header: the mapped names sorted by position
RECURSIVE HeaderFrom(_)
HeaderFrom(names) ==
    IF names = {} THEN <<>>
    ELSE LET k == CHOOSE n \in names : \A m \in names : columnIndex[n] <= columnIndex[m]
         IN  <<k>> \o HeaderFrom(names \ {k})

Header == HeaderFrom(DOMAIN columnIndex)

\* the number of columns the header mapping was built from: one more than
\* the largest mapped position, the list's last name being mapped to the last position
HeaderWidth ==
    IF DOMAIN columnIndex = {} THEN 0
    ELSE 1 + (CHOOSE n \in {columnIndex[k] : k \in DOMAIN columnIndex} :
                 \A name \in DOMAIN columnIndex : columnIndex[name] <= n)

\* Get with a position beyond the row reported as an unknown column
GetStrict(columnName) ==
    IF columnName \notin DOMAIN columnIndex \/ columnIndex[columnName] >= Len(columns)
    THEN [ok |-> FALSE, value |-> <<>>, err |-> Bare("invalidColumn")]
    ELSE [ok |-> TRUE, value |-> columns[columnIndex[columnName] + 1], err |-> NilErr]

Get(columnName) ==
    IF columnName \notin DOMAIN columnIndex
    THEN [ok |-> FALSE, value |-> <<>>, err |-> Bare("invalidColumn")]
    ELSE IF columnIndex[columnName] >= Len(columns)
    THEN [ok |-> TRUE, value |-> <<>>, err |-> NilErr]
    ELSE [ok |-> TRUE, value |-> columns[columnIndex[columnName] + 1], err |-> NilErr]

GetByColumnIndex(index) ==
    IF index >= Len(columns)
    THEN [ok |-> TRUE, value |-> <<>>, err |-> NilErr]
    ELSE [ok |-> TRUE, value |-> columns[index + 1], err |-> NilErr]

(***************************************************************************)
(* Field binding (parseFieldValue and the handlers it calls).  A handler   *)
(* returns what happened to the field: the outcome ("ok", "error" or       *)
(* "panic"), whether the field is written and with what, the error, and    *)
(* for the record the locator used, the raw value located and the texts    *)
(* the decoder was called with.                                            *)
(***************************************************************************)
Bound(outcome, write, val, err, mode, located, raw, calls) ==
    [outcome |-> outcome, write |-> write, val |-> val, err |-> err,
     mode |-> mode, located |-> located, raw |-> raw, calls |-> calls]

Skipped == Bound("ok", FALSE, NoVal, NilErr, "skip", FALSE, <<>>, <<>>)

FieldContext(structField, tagOpts) == [structField |-> structField, tagOpts |-> tagOpts]

\* setFieldValue after convertToType: a failed conversion c is wrapped with the field name and the raw
\* tag; rv.Set panics when the converted value is not assignable to the field
setConverted(c, value, fc) ==
    IF ~c.ok
    THEN Bound("error", FALSE, NoVal,
               Err("convert", TRUE, fc.structField.name, TRUE, fc.structField.tag,
                   c.err.kind),
               "", TRUE, value, c.calls)
    ELSE IF ~AssignableTo(c.val, fc.structField.type)
    THEN Bound("panic", FALSE, NoVal, NilErr, "", TRUE, value, c.calls)
    ELSE Bound("ok", TRUE, c.val, NilErr, "", TRUE, value, c.calls)

setFieldValue(value, fc) ==
    setConverted(convertToType(value, fc.structField, fc.tagOpts), value, fc)

\* handleFieldByName after r.Get: g is what Get returned
setGot(g, fc) ==
    IF ~g.ok THEN Bound("error", FALSE, NoVal, g.err, "name", FALSE, <<>>, <<>>)
    ELSE [setFieldValue(g.value, fc) EXCEPT !.mode = "name"]

handleFieldByName(columnName, fc) == setGot(Get(columnName), fc)

\* handleFieldByIndex with the index checked against the header width and a
\* short row yielding the empty string
handleFieldByIndexAgainstHeader(index, fc) ==
    IF index >= HeaderWidth
    THEN Bound("error", FALSE, NoVal,
               Err("indexOutOfRange", TRUE, fc.structField.name, TRUE, fc.structField.tag,
                   "nil"),
               "index", FALSE, <<>>, <<>>)
    ELSE [setFieldValue(GetByColumnIndex(index).value, fc) EXCEPT !.mode = "index"]

\* handleFieldByIndex delegating to GetByColumnIndex, without a range check
handleFieldByIndexUnchecked(index, fc) ==
    [setFieldValue(GetByColumnIndex(index).value, fc) EXCEPT !.mode = "index"]

handleFieldByIndex(index, fc) ==
    IF index >= Len(columns)
    THEN Bound("error", FALSE, NoVal,
               Err("indexOutOfRange", TRUE, fc.structField.name, TRUE, fc.structField.tag,
                   "nil"),
               "index", FALSE, <<>>, <<>>)
    ELSE [setFieldValue(columns[index + 1], fc) EXCEPT !.mode = "index"]

\* handleFieldByTagOptions with the index consulted before the name
handleFieldByTagOptionsIndexFirst(fc) ==
    IF fc.tagOpts.index >= 0 THEN handleFieldByIndex(fc.tagOpts.index, fc)
    ELSE IF fc.tagOpts.columnName # <<>> THEN handleFieldByName(fc.tagOpts.columnName, fc)
    ELSE Skipped

handleFieldByTagOptions(fc) ==
    IF fc.tagOpts.columnName # <<>> THEN handleFieldByName(fc.tagOpts.columnName, fc)
    ELSE IF fc.tagOpts.index >= 0 THEN handleFieldByIndex(fc.tagOpts.index, fc)
    ELSE Skipped

\* parseFieldValue after readTag: t is what readTag returned
handleTagged(t, structField) ==
    IF ~t.ok THEN Bound("error", FALSE, NoVal, t.err, "tag", FALSE, <<>>, <<>>)
    ELSE IF t.skip THEN Skipped
    ELSE handleFieldByTagOptions(FieldContext(structField, t.tagOpts))

parseFieldValue(structField) == handleTagged(readTag(structField.tag), structField)

\* parseFields: the fields in declaration order from field i (0-based) on, each
\* written as soon as it is converted; the first error or panic ends the loop
RECURSIVE parseFieldsFrom(_, _, _, _)
RECURSIVE parseFieldsNext(_, _, _, _, _)
parseFieldsFrom(rt, rv, i, steps) ==
    IF i >= Len(rt)
    THEN [outcome |-> "ok", rv |-> rv, err |-> NilErr, at |-> i, steps |-> steps]
    ELSE parseFieldsNext(rt, rv, i, steps, parseFieldValue(rt[i + 1]))

\* the loop of parseFields after field i: b is what parseFieldValue returned
parseFieldsNext(rt, rv, i, steps, b) ==
    IF b.outcome = "ok"
    THEN parseFieldsFrom(rt, IF b.write THEN [rv EXCEPT ![i + 1] = b.val] ELSE rv,
                         i + 1, Append(steps, b))
    ELSE [outcome |-> b.outcome, rv |-> rv, err |-> b.err, at |-> i,
          steps |-> Append(steps, b)]

parseFields(rt, rv) == parseFieldsFrom(rt, rv, 0, <<>>)

\* an UnmarshalLine that binds whatever it is handed, unless it points to a non-struct
UnmarshalLineUnchecked(v) ==
    IF v = "other"
    THEN [outcome |-> "error", rv |-> target, err |-> Bare("notStruct"), at |-> 0,
          steps |-> <<>>]
    ELSE parseFields(fields, target)

\* UnmarshalLine(v): v is "struct" (a non-nil pointer to the caller's struct),
\* "nil" (a nil pointer), "value" (not a pointer) or "other" (a pointer to a non-struct)
UnmarshalLine(v) ==
    IF v \in {"nil", "value"}
    THEN [outcome |-> "error", rv |-> target, err |-> Bare("notPointer"), at |-> 0,
          steps |-> <<>>]
    ELSE IF v = "other"
    THEN [outcome |-> "error", rv |-> target, err |-> Bare("notStruct"), at |-> 0,
          steps |-> <<>>]
    ELSE parseFields(fields, target)

(***************************************************************************)
(* Reading (reader.go): Next, skipLines, readHeaderAtLine, New             *)
(***************************************************************************)
\* csv.Reader.Read with FieldsPerRecord = -1: the next record, io.EOF after the
\* last one, or a read error together with the partial record
Read(p) ==
    IF p >= Len(input) THEN [columns |-> <<>>, err |-> "EOF", pos |-> p]
    ELSE [columns |-> input[p + 1].row,
          err |-> IF input[p + 1].err THEN "io" ELSE "nil", pos |-> p + 1]

\* Next after r.reader.Read: the row is stored whatever Read returned; io.EOF is
\* reported as no error
nextOf(r) ==
    [ok |-> r.err = "nil", columns |-> r.columns, pos |-> r.pos,
     err |-> IF r.err = "io" THEN Bare("io") ELSE NilErr]

Next(p) == nextOf(Read(p))

RECURSIVE skipLinesFrom(_, _, _, _)
RECURSIVE skipLinesNext(_, _, _)
skipLinesFrom(i, n, cols, p) ==
    IF i >= n THEN [ok |-> TRUE, columns |-> cols, pos |-> p, err |-> NilErr]
    ELSE skipLinesNext(i, n, Next(p))

\* the loop of skipLines after one Next: r is what Next stored and returned
skipLinesNext(i, n, r) ==
    IF ~r.ok THEN [ok |-> FALSE, columns |-> r.columns, pos |-> r.pos, err |-> Bare("skip")]
    ELSE skipLinesFrom(i + 1, n, r.columns, r.pos)

\* skipLines(n) on a reader whose current row is cols and which has read p records
skipLines(n, cols, p) == skipLinesFrom(0, n, cols, p)

\* a CSVReader value: the fields New and its options assign
Reader(cols, index, line, p) ==
    [columns |-> cols, columnIndex |-> index, headerAtLine |-> line, pos |-> p, ok |-> TRUE]

\* readHeaderAtLine(line) on reader c after skipLines returned s, ending with
\* ReadHeader unless the lines could not be skipped
headerRead(s, c) ==
    IF ~s.ok THEN [c EXCEPT !.ok = FALSE, !.columns = s.columns, !.pos = s.pos]
    ELSE [c EXCEPT !.columns = s.columns, !.pos = s.pos, !.columnIndex = SetHeader(s.columns)]

\* a readHeaderAtLine that skips one line less
readHeaderAtLineShort(line, c) ==
    IF c.headerAtLine < 0 THEN c ELSE headerRead(skipLines(line, c.columns, c.pos), c)

readHeaderAtLine(line, c) ==
    IF c.headerAtLine < 0 THEN c ELSE headerRead(skipLines(line + 1, c.columns, c.pos), c)

\* an option applied to the reader under construction (options.go)
WithHeader(cols, c) ==
    [c EXCEPT !.headerAtLine = 0 - 1, !.columns = cols, !.columnIndex = SetHeader(cols)]

WithReadHeader(line, c) == [c EXCEPT !.headerAtLine = line]

RECURSIVE applyOptions(_, _)
applyOptions(opts, c) ==
    IF opts = <<>> THEN c
    ELSE applyOptions(Tail(opts),
                      IF Head(opts).kind = "WithHeader"
                      THEN WithHeader(Head(opts).header, c)
                      ELSE WithReadHeader(Head(opts).line, c))

\* New(r, options...) after the options are applied to c
newWith(c) == readHeaderAtLine(c.headerAtLine, c)

New(opts) == newWith(applyOptions(opts, Reader(<<>>, <<>>, 0, 0)))

(***************************************************************************)
(* The inputs explored: cells, files, headers, options and struct types.   *)
(***************************************************************************)
Empty == <<>>
One == <<"1">>
Ex == <<"x">>
Padded == <<" ", "5", " ">>
Blank == <<" ">>
ADate == <<"2", "0", "2", "3", "-", "1", "2", "-", "0", "4">>
\* the ends of the int8 range, and their neighbours
MinInt == <<"-", "1", "2", "8">>
MaxInt == <<"1", "2", "7">>
Under == <<"-", "1", "2", "9">>
Over == <<"1", "2", "8">>
Plus == <<"+", "7">>
ColA == <<"a">>
ColB == <<"b">>
ColC == <<"c">>

Row(cells) == [row |-> cells, err |-> FALSE]
\* a read error of the underlying io.Reader, with the partial record
Broken(cells) == [row |-> cells, err |-> TRUE]

Files ==
    {<<Row(<<ColA, ColB, ColC>>), Row(<<One, Ex, ADate>>), Row(<<Empty>>),
       Row(<<Padded, Blank, One, Ex>>)>>,
     <<Row(<<ColB, ColA>>), Broken(<<Ex>>), Row(<<Empty, One, One>>)>>,
     <<Row(<<One, Empty, ColA>>)>>,
     <<Row(<<ColA, ColB, ColC>>), Row(<<MinInt, Over, One>>), Row(<<MaxInt>>),
       Row(<<Plus, MaxInt, Under>>)>>,
     <<>>}

Headers == {<<ColA, ColB, ColC>>, <<ColC, ColC, ColA, ColB>>}

Names == {ColA, ColC}

OptionLists ==
    {<<>>}
    \cup {<<[kind |-> "WithReadHeader", line |-> n, header |-> <<>>]>> :
             n \in (0 - 1)..MaxHeaderLine}
    \cup {<<[kind |-> "WithHeader", line |-> 0, header |-> h]>> : h \in Headers}

Field(name, tag, type) == [name |-> name, tag |-> tag, type |-> type]

\* name-bound primitives
Basic ==
    <<Field("A", Tag(<<"a">>), Ty("string", 0)),
      Field("B", Tag(<<"b">>), Ty("int8", 0)),
      Field("C", Tag(<<"c">>), Ty("string", 0))>>

\* index-bound primitives
ByIndex ==
    <<Field("A", Tag(<<"i", "n", "d", "e", "x", ":", "0">>), Ty("string", 0)),
      Field("B", Tag(<<"i", "n", "d", "e", "x", ":", "1">>), Ty("int8", 0)),
      Field("C", Tag(<<"i", "n", "d", "e", "x", ":", "2">>), Ty("bool", 0))>>

\* an index beyond the header, and unbound fields
Mixed ==
    <<Field("A", Tag(<<"i", "n", "d", "e", "x", ":", "3">>), Ty("string", 0)),
      Field("B", NoTag, Ty("int8", 0)),
      Field("C", Tag(<<"-">>), Ty("Plain", 0)),
      Field("D", Tag(<<>>), Ty("Time", 0))>>

\* a formatted time.Time
Dated ==
    <<Field("A", Tag(<<"c", ",", "f", "o", "r", "m", "a", "t", ":", "2", "0", "0", "6", "-", "0", "1", "-", "0", "2">>), Ty("Time", 0)),
      Field("B", Tag(<<"a">>), Ty("string", 0))>>

\* time.Time without format, and tags without locator
Undated ==
    <<Field("A", Tag(<<"a">>), Ty("Time", 0)),
      Field("B", Tag(<<"f", "o", "r", "m", "a", "t", ":", "2", "0", "0", "6", "-", "0", "1", "-", "0", "2">>), Ty("Time", 0)),
      Field("C", Tag(<<"i", "n", "d", "e", "x", ":", "-", "1">>), Ty("Time", 0))>>

\* text-decodable fields
Decimals ==
    <<Field("A", Tag(<<"a">>), Ty("Decimal", 0)),
      Field("B", Tag(<<"b">>), Ty("Decimal", 1)),
      Field("C", Tag(<<"c">>), Ty("Codes", 0))>>

\* text-decodable fields of slice and int8 kind
Coded ==
    <<Field("A", Tag(<<"b">>), Ty("Codes", 0)),
      Field("B", Tag(<<"a">>), Ty("Codes", 1)),
      Field("C", Tag(<<"a">>), Ty("Level", 0))>>

\* a decodable int8, and an unsupported type
Levels ==
    <<Field("A", Tag(<<"a">>), Ty("Level", 1)),
      Field("B", Tag(<<"a">>), Ty("Level", 0)),
      Field("C", Tag(<<"a">>), Ty("Plain", 0))>>

\* a malformed index token
BadIndex ==
    <<Field("A", Tag(<<"a">>), Ty("string", 0)),
      Field("B", Tag(<<"i", "n", "d", "e", "x", ":", "x">>), Ty("string", 0)),
      Field("C", Tag(<<"c">>), Ty("string", 0))>>

\* name before index, a tag with only a format, and an unknown column
Precedence ==
    <<Field("A", Tag(<<"a", ",", "i", "n", "d", "e", "x", ":", "9">>), Ty("string", 0)),
      Field("B", Tag(<<"f", "o", "r", "m", "a", "t", ":", "2", "0", "0", "6">>), Ty("uint8", 0)),
      Field("C", Tag(<<"z", "z">>), Ty("string", 0))>>

\* trimmed tokens and a trailing comma
Trimmed ==
    <<Field("A", Tag(<<" ", "b", " ">>), Ty("string", 0)),
      Field("B", Tag(<<"a", ",">>), Ty("string", 0)),
      Field("C", Tag(<<"i", "n", "d", "e", "x", ":", "0", ",", " ", "f", "o", "r", "m", "a", "t", ":", "x">>), Ty("uint8", 0))>>

\* signed integers, one of them of a type with an UnmarshalText method
Ints ==
    <<Field("A", Tag(<<"a">>), Ty("int8", 0)),
      Field("B", Tag(<<"b">>), Ty("int8", 0)),
      Field("C", Tag(<<"c">>), Ty("Level", 0))>>

\* tokens of the same kind repeated, and a comma inside a format
Folded ==
    <<Field("A", Tag(<<"a", ",", "b">>), Ty("string", 0)),
      Field("B", Tag(<<"i", "n", "d", "e", "x", ":", "0", ",", "i", "n", "d", "e", "x", ":", "2">>), Ty("string", 0)),
      Field("C", Tag(<<"c", ",", "f", "o", "r", "m", "a", "t", ":", "x", ",", " ", "f", "o", "r", "m", "a", "t", ":", "2", "0", "0", "6", "-", "0", "1", "-", "0", "2">>), Ty("Time", 0)),
      Field("D", Tag(<<"c", ",", "f", "o", "r", "m", "a", "t", ":", "2", "0", "0", "6", ",", "0", "1">>), Ty("Time", 0))>>

\* a pointer to time.Time with a format, a decodable int8, a pointer to int8
Paths ==
    <<Field("A", Tag(<<"c", ",", "f", "o", "r", "m", "a", "t", ":", "2", "0", "0", "6", "-", "0", "1", "-", "0", "2">>), Ty("Time", 1)),
      Field("B", Tag(<<"a">>), Ty("Level", 0)),
      Field("C", Tag(<<"a">>), Ty("int8", 1))>>

Structs ==
    {Basic, ByIndex, Mixed, Dated, Undated, Decimals,
     Coded, Levels, BadIndex, Precedence, Trimmed, Ints, Folded, Paths}

ArgKinds == {"struct", "nil", "value", "other"}

\* var v T: every field holds the zero value of its type
ZeroStruct(rt) == [i \in 1..Len(rt) |-> Zero(rt[i].type)]

(***************************************************************************)
(* The state machine: a caller that constructs a reader and then calls its *)
(* methods in any order.                                                   *)
(***************************************************************************)
Ret(op) ==
    [op |-> op, name |-> <<>>, index |-> 0, v |-> "", outcome |-> "ok", value |-> <<>>,
     list |-> <<>>, err |-> NilErr, at |-> 0, steps |-> <<>>, before |-> <<>>]

Init ==
    /\ phase = "unbuilt"
    /\ options \in OptionLists
    /\ input \in Files
    /\ pos = 0
    /\ columns = <<>>
    /\ columnIndex = <<>>
    /\ headerAtLine = 0
    /\ fields \in Structs
    /\ target = ZeroStruct(fields)
    /\ ret = Ret("none")

\* the caller's state after New returned the reader c (or the error of skipLines)
Built(c) ==
    /\ phase' = IF c.ok THEN "ready" ELSE "failed"
    /\ columns' = c.columns
    /\ columnIndex' = c.columnIndex
    /\ headerAtLine' = c.headerAtLine
    /\ pos' = c.pos
    /\ ret' = [Ret("New") EXCEPT !.outcome = IF c.ok THEN "ok" ELSE "error",
                                 !.err = IF c.ok THEN NilErr ELSE Bare("skip")]

CallNew ==
    /\ phase = "unbuilt"
    /\ Built(New(options))
    /\ options' = <<>>
    /\ UNCHANGED <<input, fields, target>>

\* the reader after Next stored and returned r
Advanced(r) ==
    /\ columns' = r.columns
    /\ pos' = r.pos
    /\ ret' = [Ret("Next") EXCEPT !.outcome = IF r.ok THEN "ok" ELSE "false", !.err = r.err]

CallNext ==
    /\ phase = "ready"
    /\ Advanced(Next(pos))
    /\ UNCHANGED <<phase, options, input, columnIndex, headerAtLine, fields, target>>

CallSetHeader(cols) ==
    /\ phase = "ready"
    /\ columns' = cols
    /\ columnIndex' = SetHeader(cols)
    /\ ret' = [Ret("SetHeader") EXCEPT !.list = cols]
    /\ UNCHANGED <<phase, options, input, pos, headerAtLine, fields, target>>

\* ReadHeader: SetHeader(r.columns)
CallReadHeader ==
    /\ phase = "ready"
    /\ columnIndex' = SetHeader(columns)
    /\ ret' = Ret("ReadHeader")
    /\ UNCHANGED <<phase, options, input, pos, columns, headerAtLine, fields, target>>

\* what the caller holds after Get returned g
Got(g, columnName) ==
    ret' = [Ret("Get") EXCEPT !.name = columnName, !.value = g.value, !.err = g.err,
                              !.outcome = IF g.ok THEN "ok" ELSE "error"]

CallGet(columnName) ==
    /\ phase = "ready"
    /\ Got(Get(columnName), columnName)
    /\ UNCHANGED <<phase, options, input, pos, columns, columnIndex, headerAtLine,
                   fields, target>>

CallGetByColumnIndex(index) ==
    /\ phase = "ready"
    /\ ret' = [Ret("GetByColumnIndex") EXCEPT !.index = index,
                                              !.value = GetByColumnIndex(index).value]
    /\ UNCHANGED <<phase, options, input, pos, columns, columnIndex, headerAtLine,
                   fields, target>>

CallHeader ==
    /\ phase = "ready"
    /\ ret' = [Ret("Header") EXCEPT !.list = Header]
    /\ UNCHANGED <<phase, options, input, pos, columns, columnIndex, headerAtLine,
                   fields, target>>

\* the caller's struct after UnmarshalLine(v) ended as u; a panic of reflect's
\* Set ends the program
Filled(u, v) ==
    /\ target' = u.rv
    /\ phase' = IF u.outcome = "panic" THEN "panicked" ELSE phase
    /\ ret' = [Ret("UnmarshalLine") EXCEPT !.v = v, !.outcome = u.outcome, !.err = u.err,
                                           !.at = u.at, !.steps = u.steps,
                                           !.before = target]

CallUnmarshalLine(v) ==
    /\ phase = "ready"
    /\ Filled(UnmarshalLine(v), v)
    /\ UNCHANGED <<options, input, pos, columns, columnIndex, headerAtLine, fields>>

Step ==
    \/ CallNew
    \/ CallNext
    \/ \E cols \in Headers : CallSetHeader(cols)
    \/ CallReadHeader
    \/ \E columnName \in Names : CallGet(columnName)
    \/ \E index \in 0..MaxGetIndex : CallGetByColumnIndex(index)
    \/ CallHeader
    \/ \E v \in ArgKinds : CallUnmarshalLine(v)

Spec == Init /\ [][Step]_vars

(***************************************************************************)
(* Vocabulary of the properties.  UnmarshalLine leaves the row and the     *)
(* header mapping alone, so in the state after a call a field's binding    *)
(* can be evaluated again on the row the call has read.                    *)
(***************************************************************************)
\* the last call was UnmarshalLine on a pointer to the caller's struct
Unmarshalled == ret.op = "UnmarshalLine" /\ ret.v = "struct"

\* the fields the last UnmarshalLine has processed (1-based)
Processed == 1..Len(ret.steps)

\* the directive of field i (1-based)
Directive(i) == readTag(fields[i].tag).tagOpts

\* the fields bound by index in the last UnmarshalLine
IndexBound == {i \in Processed : ret.steps[i].mode = "index"}

\* the fields bound by name in the last UnmarshalLine
NameBound == {i \in Processed : ret.steps[i].mode = "name"}

\* field i failed with the index-out-of-range error
OutOfRange(i) ==
    /\ ret.steps[i].outcome = "error"
    /\ ret.steps[i].err.kind = "indexOutOfRange"
    /\ ~ret.steps[i].located

\* the fields whose tag parse, lookup or conversion fails on the current row
Failing == {i \in 1..Len(fields) : parseFieldValue(fields[i]).outcome = "error"}

FirstFailing == CHOOSE k \in Failing : \A j \in Failing : k <= j

(***************************************************************************)
(* C1: UnmarshalLine binds the fields in declaration order and stops at    *)
(* the first failing field k: the bound fields before k hold their newly   *)
(* converted values, k and the fields after it keep the values they had    *)
(* before the call, and the error returned is the error of field k.        *)
(***************************************************************************)
C1_StopsAtFirstFailure ==
    (Unmarshalled /\ columns # <<>> /\ Failing # {}) =>
        /\ ret.outcome = "error"
        /\ ret.err = parseFieldValue(fields[FirstFailing]).err
        /\ \A j \in 1..(FirstFailing - 1) :
              parseFieldValue(fields[j]).write => target[j] = parseFieldValue(fields[j]).val
        /\ \A j \in FirstFailing..Len(fields) : target[j] = ret.before[j]

NameLookupIs(name, ok, value, err) ==
    IF name \notin DOMAIN columnIndex THEN ~ok /\ err.kind = "invalidColumn"
    ELSE IF columnIndex[name] >= Len(columns) THEN ok /\ value = <<>>
    ELSE ok /\ value = columns[columnIndex[name] + 1]

(***************************************************************************)
(* C4: a lookup by name (Get, and a field bound by name) fails with the    *)
(* unknown-column error when the name is no key of the header mapping,     *)
(* yields the empty string without error when the name's position is at or *)
(* beyond the current row's length, and otherwise yields the row's value   *)
(* at the mapped position; after any sequence of SetHeader, ReadHeader and *)
(* Next calls, also after Next has returned false.                         *)
(***************************************************************************)
C4_NameLookup ==
    /\ ret.op = "Get" => NameLookupIs(ret.name, ret.outcome = "ok", ret.value, ret.err)
    /\ Unmarshalled =>
          \A i \in NameBound :
              NameLookupIs(Directive(i).columnName, ret.steps[i].located,
                           ret.steps[i].raw, ret.steps[i].err)

\* after Next has returned false at the end of the input, a mapped name has
\* been looked up and has yielded the empty string
C4_Witness ==
    /\ ret.op = "Get"
    /\ ret.name \in DOMAIN columnIndex
    /\ pos = Len(input)
    /\ columns = <<>>
    /\ ret.outcome = "ok"
    /\ ret.value = <<>>

\* field i has no csv tag, an empty one, or the tag "-"
Unbound(i) == ~fields[i].tag.has \/ fields[i].tag.csv \in {<<>>, <<"-">>}

(***************************************************************************)
(* C5: a field whose csv tag is absent, empty or exactly "-" is never      *)
(* written by UnmarshalLine and never causes an error, whatever the row    *)
(* and the header.                                                         *)
(***************************************************************************)
C5_UnboundUntouched ==
    \A i \in 1..Len(fields) :
        Unbound(i) =>
            /\ target[i] = Zero(fields[i].type)
            /\ (Unmarshalled /\ i \in Processed) =>
                  /\ ret.steps[i].outcome = "ok"
                  /\ ~ret.steps[i].write
                  /\ ret.at # i - 1

\* a call has bound a field and passed over an unbound field of a type that
\* no conversion supports
C5_Witness ==
    /\ Unmarshalled
    /\ ret.outcome = "ok"
    /\ \E j \in Processed : ret.steps[j].write /\ target[j] # ret.before[j]
    /\ \E i \in Processed : Unbound(i) /\ fields[i].type = Ty("Plain", 0)
    /\ \E i \in Processed : Unbound(i) /\ ~fields[i].tag.has

(***************************************************************************)
(* C6: locator precedence.  A directive with a non-empty column name is    *)
(* bound by name and its index is ignored, even when out of range; the     *)
(* index is used only when the name is empty and the index is >= 0; with   *)
(* an empty name and a negative or unset index the field is skipped: not   *)
(* written, and no error.                                                  *)
(***************************************************************************)
C6_LocatorPrecedence ==
    Unmarshalled =>
        \A i \in Processed :
            (readTag(fields[i].tag).ok /\ ~readTag(fields[i].tag).skip) =>
                /\ Directive(i).columnName # <<>> =>
                      /\ ret.steps[i].mode = "name"
                      /\ ret.steps[i].err.kind # "indexOutOfRange"
                      /\ NameLookupIs(Directive(i).columnName, ret.steps[i].located,
                                      ret.steps[i].raw, ret.steps[i].err)
                /\ (Directive(i).columnName = <<>> /\ Directive(i).index >= 0) =>
                      ret.steps[i].mode = "index"
                /\ (Directive(i).columnName = <<>> /\ Directive(i).index < 0) =>
                      /\ ret.steps[i].mode = "skip"
                      /\ ret.steps[i].outcome = "ok"
                      /\ ~ret.steps[i].write
                      /\ target[i] = ret.before[i]

\* a field with a name and an index beyond the row has been bound by name, and
\* a field whose tag holds only a format token has been passed over
C6_Witness ==
    /\ Unmarshalled
    /\ \E i \in Processed :
          /\ Directive(i).columnName # <<>>
          /\ Directive(i).index >= Len(columns)
          /\ ret.steps[i].mode = "name"
          /\ ret.steps[i].write
          /\ target[i].s = columns[columnIndex[Directive(i).columnName] + 1]
    /\ \E i \in Processed :
          /\ ~Unbound(i)
          /\ Directive(i).columnName = <<>>
          /\ Directive(i).index < 0
          /\ Directive(i).format # <<>>
          /\ ret.steps[i].mode = "skip"

(***************************************************************************)
(* C7: converting any raw value, the empty string included, to time.Time   *)
(* with an empty format always fails with a conversion error and never     *)
(* yields a default date.                                                  *)
(***************************************************************************)
C7_EmptyFormatFails ==
    (Unmarshalled /\ columns # <<>>) =>
        \A i \in Processed :
            (fields[i].type = TimeType /\ ret.steps[i].located
                 /\ Directive(i).format = <<>>) =>
                /\ ret.steps[i].outcome = "error"
                /\ ret.steps[i].err.kind = "convert"
                /\ ~ret.steps[i].write

\* the type of field i, or the type it points to, has the text-decoding capability
Capable(i) == Implements(PtrTo(determineTargetType(fields[i].type)))

\* field i is converted by the text-decoding path: it is capable, of no
\* primitive kind, and not time.Time itself
DecoderPath(i) ==
    /\ Capable(i)
    /\ Kind(fields[i].type) \notin {"int8", "uint8", "bool", "string"}
    /\ fields[i].type # TimeType

(***************************************************************************)
(* C8: for a text-decodable field (one converted by the text-decoding      *)
(* path) whose raw value is empty the decoder is not invoked; a            *)
(* non-pointer field of any kind receives the zero value of its own type   *)
(* and a pointer field receives nil; the value is assignable and the       *)
(* binding of the field succeeds.                                          *)
(***************************************************************************)
C8_EmptyYieldsZero ==
    (Unmarshalled /\ columns # <<>>) =>
        \A i \in Processed :
            (DecoderPath(i) /\ ret.steps[i].located /\ ret.steps[i].raw = <<>>) =>
                /\ ret.steps[i].calls = <<>>
                /\ ret.steps[i].outcome = "ok"
                /\ ret.steps[i].write
                /\ target[i] = Zero(fields[i].type)

\* what the decoder path must do with the non-empty raw value of field i
DecodedOnce(i) ==
    LET text == TrimSpace(ret.steps[i].raw)
    IN  /\ ret.steps[i].calls = <<text>>
        /\ text \notin Rejects(determineTargetType(fields[i].type)) =>
              /\ ret.steps[i].outcome = "ok"
              /\ target[i] = Val(fields[i].type, 0, text, FALSE)
        /\ text \in Rejects(determineTargetType(fields[i].type)) =>
              /\ ret.steps[i].outcome = "error"
              /\ ret.err.kind = "convert"
              /\ ret.err.cause = "decoder"
              /\ target[i] = ret.before[i]

(***************************************************************************)
(* C9 as claimed: for every field whose type (or pointed-to type) has the  *)
(* text-decoding capability and whose raw value is not empty, the decoder  *)
(* is invoked exactly once, on the raw value with the surrounding          *)
(* whitespace removed; on success a pointer field receives a non-nil       *)
(* pointer to the decoded value and a non-pointer field the decoded value; *)
(* on failure the field is not written and the decoder's error is the      *)
(* cause of the returned error.                                            *)
(***************************************************************************)
C9_Claimed_EveryCapableField ==
    Unmarshalled =>
        \A i \in Processed :
            (Capable(i) /\ ret.steps[i].located /\ ret.steps[i].raw # <<>>) => DecodedOnce(i)

(***************************************************************************)
(* C9 amended: the same, for the fields converted by the text-decoding     *)
(* path, that is the capable fields that are of no primitive kind and are  *)
(* not time.Time itself (those are converted by the earlier paths and      *)
(* their decoder is never invoked).                                        *)
(***************************************************************************)
C9_DecodedOnceTrimmed ==
    Unmarshalled =>
        \A i \in Processed :
            (DecoderPath(i) /\ ret.steps[i].located /\ ret.steps[i].raw # <<>>) =>
                DecodedOnce(i)

\* a whitespace-only raw value has been decoded as the empty text, and a
\* pointer field has received a non-nil pointer to the value decoded from a
\* padded raw value
C9_Witness ==
    /\ Unmarshalled
    /\ \E i \in Processed :
          /\ DecoderPath(i)
          /\ ret.steps[i].raw # <<>>
          /\ ret.steps[i].calls = <<(<<>>)>>
          /\ ret.steps[i].write
    /\ \E i \in Processed :
          /\ DecoderPath(i)
          /\ Kind(fields[i].type) = "ptr"
          /\ ret.steps[i].raw # TrimSpace(ret.steps[i].raw)
          /\ ~target[i].nil
          /\ target[i].s = TrimSpace(ret.steps[i].raw)
          /\ target[i].s # <<>>

(***************************************************************************)
(* C10: every error UnmarshalLine returns for a failing field (a malformed *)
(* index token, an unknown column, an index out of range, a failed         *)
(* conversion, an unsupported type) carries the field's name and its raw   *)
(* tag, together with the underlying cause.                                *)
(***************************************************************************)
C10_ErrorsCarryContext ==
    (Unmarshalled /\ ret.outcome = "error") =>
        /\ ret.err.hasField
        /\ ret.err.field = fields[ret.at + 1].name
        /\ ret.err.hasTag
        /\ ret.err.tag = fields[ret.at + 1].tag
        /\ ret.err.kind = "convert" => ret.err.cause # "nil"

(***************************************************************************)
(* Signed integers.                                                        *)
(***************************************************************************)
\* the digits of a text after its optional sign
Magnitude(s) == IF s # <<>> /\ s[1] \in {"+", "-"} THEN Drop(s, 1) ELSE s

\* the text is a base-10 integer literal: an optional sign and at least one digit
IsLiteral(s) == Magnitude(s) # <<>> /\ AllDigits(Magnitude(s))

\* the integer a literal denotes
Denoted(s) == IF s[1] = "-" THEN 0 - DecValue(Magnitude(s)) ELSE DecValue(Magnitude(s))

\* field i is of a signed integer kind
Signed(i) == Kind(fields[i].type) = "int8"

\* the literal fits the two's-complement range of w bits
InRange(s, w) == 0 - 2 ^ (w - 1) <= Denoted(s) /\ Denoted(s) <= 2 ^ (w - 1) - 1

(***************************************************************************)
(* C11: for a signed integer field of bit-width w, a base-10 literal       *)
(* converts to exactly the integer it denotes when that integer lies in    *)
(* [-2^(w-1), 2^(w-1)-1]; a literal outside the range and a text that is   *)
(* no base-10 integer (the empty string of a short row included) fail with *)
(* a conversion error and leave the field unwritten.                       *)
(***************************************************************************)
C11_SignedExactOrError ==
    Unmarshalled =>
        \A i \in Processed :
            (Signed(i) /\ ret.steps[i].located) =>
                IF IsLiteral(ret.steps[i].raw)
                   /\ InRange(ret.steps[i].raw, Bits(fields[i].type))
                THEN /\ ret.steps[i].outcome = "ok"
                     /\ target[i] = Val(fields[i].type, Denoted(ret.steps[i].raw), <<>>, FALSE)
                ELSE /\ ret.steps[i].outcome = "error"
                     /\ ret.steps[i].err.kind = "convert"
                     /\ ~ret.steps[i].write
                     /\ target[i] = ret.before[i]

\* -128 is converted exactly and 128 is refused, the field keeping its zero
C11_Witness ==
    /\ Unmarshalled
    /\ fields = Ints
    /\ Len(ret.steps) = 2
    /\ ret.steps[1].raw = MinInt
    /\ target[1].n = 0 - 128
    /\ ret.steps[2].raw = Over
    /\ ret.steps[2].outcome = "error"
    /\ target[2] = Zero(fields[2].type)

(***************************************************************************)
(* The header mapping.                                                     *)
(***************************************************************************)
\* the calls that establish a header
Establishing == {"New", "SetHeader", "ReadHeader"}

\* every mapped position is a position of the list the mapping was built
\* from, which is the current row right after the header is established
PositionsValid ==
    (ret.op \in Establishing /\ phase = "ready") =>
        \A name \in DOMAIN columnIndex :
            /\ columnIndex[name] \in 0..(Len(columns) - 1)
            /\ columns[columnIndex[name] + 1] = name

\* what Header returned is the mapped names in increasing position order
HeaderOrdered ==
    ret.op = "Header" =>
        /\ Len(ret.list) = Cardinality(DOMAIN columnIndex)
        /\ Range(ret.list) = DOMAIN columnIndex
        /\ \A i, j \in 1..Len(ret.list) :
              i < j => columnIndex[ret.list[i]] < columnIndex[ret.list[j]]

\* a call that establishes no header leaves the mapping as it is
MappingKept == ret'.op \notin Establishing => columnIndex' = columnIndex

(***************************************************************************)
(* C12: the header mapping changes only when a header is established (New, *)
(* SetHeader, ReadHeader): Next, Get, GetByColumnIndex, Header and         *)
(* UnmarshalLine, successful or failing, leave it identical; every mapped  *)
(* position is a valid index into the column list the mapping was built    *)
(* from; and Header returns the mapped names in increasing position order. *)
(***************************************************************************)
C12_HeaderMappingStable == [](PositionsValid /\ HeaderOrdered) /\ [][MappingKept]_vars

\* a header given with a repeated name, still in place after two rows were
\* read, listed by Header in position order
C12_Witness ==
    /\ ret.op = "Header"
    /\ ret.list = <<ColC, ColA, ColB>>
    /\ headerAtLine < 0
    /\ pos >= 2
    /\ columns # <<ColC, ColC, ColA, ColB>>

(***************************************************************************)
(* Header positioning of New.  The reader keeps in headerAtLine the line   *)
(* New was asked to read the header from (0 unless an option changed it,   *)
(* negative after WithHeader); lines are counted from 0.                   *)
(***************************************************************************)
\* line k of the input (0-based)
Line(k) == input[k + 1].row

\* the state New leaves
Positioned ==
    ret.op = "New" =>
        IF headerAtLine >= 0
        THEN /\ Len(input) < headerAtLine + 1 => (ret.outcome = "error" /\ phase = "failed")
             /\ ret.outcome = "ok" =>
                   /\ pos = headerAtLine + 1
                   /\ columns = Line(headerAtLine)
                   /\ DOMAIN columnIndex = Range(Line(headerAtLine))
                   /\ \A name \in DOMAIN columnIndex :
                         Line(headerAtLine)[columnIndex[name] + 1] = name
        ELSE /\ ret.outcome = "ok"
             /\ pos = 0

\* the line the first Next after New is to yield
FirstLine == IF headerAtLine >= 0 THEN headerAtLine + 1 ELSE 0

\* the first Next after New yields that line
FirstNextYields ==
    (ret.op = "New" /\ ret'.op = "Next") =>
        IF FirstLine < Len(input) /\ ~input[FirstLine + 1].err
        THEN ret'.outcome = "ok" /\ columns' = Line(FirstLine)
        ELSE ret'.outcome = "false"

\* an UnmarshalLine right after New binds by index the values of the header line
BindsHeaderLine ==
    (ret.op = "New" /\ headerAtLine >= 0 /\ ret'.op = "UnmarshalLine" /\ ret'.v = "struct") =>
        \A i \in 1..Len(ret'.steps) :
            (ret'.steps[i].mode = "index" /\ ret'.steps[i].located) =>
                ret'.steps[i].raw = Line(headerAtLine)[Directive(i).index + 1]

(***************************************************************************)
(* C13: with WithReadHeader(n), n >= 0 (n = 0 by default), New consumes    *)
(* the lines 0..n, establishes the header from line n and leaves line n as *)
(* the current row, so that an UnmarshalLine by index before any Next      *)
(* binds the values of line n and the first Next yields line n+1; New      *)
(* fails when the input has fewer than n+1 lines.  With a negative n or    *)
(* with WithHeader, New consumes no line and the first Next yields line 0. *)
(***************************************************************************)
C13_NewPositionsHeader == []Positioned /\ [][FirstNextYields /\ BindsHeaderLine]_vars

\* the header was read from line 1 and the fields are bound by index from
\* that line, no Next having been called
C13_Witness ==
    /\ Unmarshalled
    /\ headerAtLine = 1
    /\ pos = 2
    /\ columns = Line(1)
    /\ DOMAIN columnIndex = Range(Line(1))
    /\ \E i \in IndexBound :
          /\ ret.steps[i].located
          /\ ret.steps[i].raw = Line(1)[Directive(i).index + 1]
          /\ ret.steps[i].write

(***************************************************************************)
(* Tag parsing as a fold over the tokens.                                  *)
(***************************************************************************)
\* the trimmed tokens of field i's csv tag (1-based)
Tokens(i) ==
    [k \in 1..Len(Split(tagGet(fields[i].tag))) |-> TrimSpace(Split(tagGet(fields[i].tag))[k])]

IndexTokens(i) == {k \in DOMAIN Tokens(i) : HasPrefix(Tokens(i)[k], IndexPrefix)}

FormatTokens(i) == {k \in DOMAIN Tokens(i) : HasPrefix(Tokens(i)[k], FormatPrefix)}

NameTokens(i) == DOMAIN Tokens(i) \ (IndexTokens(i) \cup FormatTokens(i))

\* the last position of a non-empty set of positions
Last(S) == CHOOSE k \in S : \A j \in S : j <= k

\* the text after the prefix of an index: or format: token
Remainder(token, prefix) == Drop(token, Len(prefix))

\* some index: token has a remainder that is no integer
IndexMalformed(i) ==
    \E k \in IndexTokens(i) : ~IsLiteral(Remainder(Tokens(i)[k], IndexPrefix))

\* the directive the fold yields: per kind, what the last token of the kind says
Folding(i) ==
    TagOptions(IF NameTokens(i) = {} THEN <<>> ELSE Tokens(i)[Last(NameTokens(i))],
               IF IndexTokens(i) = {} THEN 0 - 1
               ELSE Denoted(Remainder(Tokens(i)[Last(IndexTokens(i))], IndexPrefix)),
               IF FormatTokens(i) = {} THEN <<>>
               ELSE Remainder(Tokens(i)[Last(FormatTokens(i))], FormatPrefix))

\* field i has a csv tag that is neither empty nor "-"
Tagged(i) == tagGet(fields[i].tag) \notin {<<>>, <<"-">>}

(***************************************************************************)
(* C14: tag parsing folds the comma-separated tokens left to right from    *)
(* the default directive (name empty, index -1, format empty), each token  *)
(* trimmed, last write winning per kind: the column name is the last token *)
(* with neither the index: nor the format: prefix (a later empty token     *)
(* replaces an earlier name), the index is that of the last index: token,  *)
(* the format the remainder of the last format: token; an index remainder  *)
(* that is no integer makes the parse fail and the field is not written.   *)
(***************************************************************************)
C14_TagFold ==
    Unmarshalled =>
        \A i \in Processed :
            Tagged(i) =>
                IF IndexMalformed(i)
                THEN /\ ~readTag(fields[i].tag).ok
                     /\ ret.steps[i].outcome = "error"
                     /\ ret.steps[i].mode = "tag"
                     /\ ~ret.steps[i].write
                     /\ target[i] = ret.before[i]
                ELSE /\ readTag(fields[i].tag).ok
                     /\ Directive(i) = Folding(i)
                     /\ ret.steps[i].mode # "tag"

\* the second name, the second index and the second format win, and the text
\* after a comma inside a format becomes the column name
C14_Witness ==
    /\ Unmarshalled
    /\ fields = Folded
    /\ Len(ret.steps) = 4
    /\ Directive(1).columnName = ColB /\ ret.steps[1].raw = columns[columnIndex[ColB] + 1]
    /\ Directive(2).index = 2 /\ ret.steps[2].raw = columns[3]
    /\ Directive(3).format = <<"2", "0", "0", "6", "-", "0", "1", "-", "0", "2">>
    /\ ret.steps[3].write
    /\ Directive(4).columnName = <<"0", "1">>
    /\ ret.steps[4].err.kind = "invalidColumn"

(***************************************************************************)
(* The conversion paths.                                                   *)
(***************************************************************************)
\* field i is of a primitive kind
Primitive(i) == Kind(fields[i].type) \in {"int8", "uint8", "bool", "string"}

\* field i is of the temporal type itself
Temporal(i) == fields[i].type = TimeType

\* the primitive path: a strconv parse (none for strings), no decoder
PrimitivePath(i) ==
    /\ ret.steps[i].calls = <<>>
    /\ ret.steps[i].outcome = "error" =>
          (ret.steps[i].err.kind = "convert" /\ ret.steps[i].err.cause \in {"syntax", "range"})
    /\ Kind(fields[i].type) = "string" =>
          (ret.steps[i].outcome = "ok" /\ target[i].s = ret.steps[i].raw)

\* the temporal path: time.Parse with the directive's format, no decoder
TemporalPath(i) ==
    /\ ret.steps[i].calls = <<>>
    /\ IF timeParse(Directive(i).format, ret.steps[i].raw).ok
       THEN /\ ret.steps[i].outcome = "ok"
            /\ target[i].n = timeParse(Directive(i).format, ret.steps[i].raw).n
       ELSE /\ ret.steps[i].outcome = "error"
            /\ ret.steps[i].err.cause = "timeparse"

\* the text-decoding path: the decoder is handed a non-empty raw value, and
\* an error is the decoder's
TextPath(i) ==
    /\ ret.steps[i].raw # <<>> => ret.steps[i].calls = <<TrimSpace(ret.steps[i].raw)>>
    /\ ret.steps[i].outcome = "error" =>
          (ret.steps[i].err.kind = "convert" /\ ret.steps[i].err.cause = "decoder")

\* no path: the unsupported-type error, the field unwritten
NoPath(i) ==
    /\ ret.steps[i].calls = <<>>
    /\ ret.steps[i].outcome = "error"
    /\ ret.steps[i].err.kind = "convert"
    /\ ret.steps[i].err.cause = "unsupported"
    /\ ~ret.steps[i].write
    /\ target[i] = ret.before[i]

\* the conversion of field i's raw value does not depend on the format
FormatUnused(i) ==
    convertToType(ret.steps[i].raw, fields[i], Directive(i))
        = convertToType(ret.steps[i].raw, fields[i], [Directive(i) EXCEPT !.format = <<>>])

(***************************************************************************)
(* C15: the conversion path is chosen in a fixed order, the first match    *)
(* winning: primitive kind, then the exact temporal type parsed with the   *)
(* directive's format, then the text-decoding capability of the type or of *)
(* its pointed-to type, then the unsupported-type error.  So a type of     *)
(* primitive kind with the capability never has its decoder invoked, the   *)
(* format is used only for the non-pointer temporal type, and a type       *)
(* matching no path fails without the field being written.                 *)
(***************************************************************************)
C15_DispatchOrder ==
    Unmarshalled =>
        \A i \in Processed :
            ret.steps[i].located =>
                /\ IF Primitive(i) THEN PrimitivePath(i)
                   ELSE IF Temporal(i) THEN TemporalPath(i)
                   ELSE IF Capable(i) THEN TextPath(i)
                   ELSE NoPath(i)
                /\ ~Temporal(i) => FormatUnused(i)

\* a pointer to time.Time with a format is decoded, not parsed with the
\* format; a decodable int8 is parsed as an integer; a pointer to int8 is
\* unsupported
C15_Witness ==
    /\ Unmarshalled
    /\ fields = Paths
    /\ Len(ret.steps) = 3
    /\ Directive(1).format # <<>>
    /\ ret.steps[1].calls = <<ADate>>
    /\ ret.steps[1].write
    /\ Capable(2)
    /\ ret.steps[2].calls = <<>>
    /\ target[2] = Val(fields[2].type, 1, <<>>, FALSE)
    /\ ret.steps[3].err.cause = "unsupported"
    /\ target[3] = ret.before[3]

(***************************************************************************)
(* The frame of UnmarshalLine.                                             *)
(***************************************************************************)
\* the raw values of the last UnmarshalLine are those of the current row
ReadsCurrentRow ==
    Unmarshalled =>
        \A i \in Processed :
            ret.steps[i].located =>
                /\ ret.steps[i].mode = "index" =>
                      ret.steps[i].raw = columns[Directive(i).index + 1]
                /\ ret.steps[i].mode = "name" =>
                      ret.steps[i].raw = Get(Directive(i).columnName).value

\* the call leaves the input and the reader as they are
ReaderKept ==
    ret'.op = "UnmarshalLine" =>
        /\ input' = input
        /\ pos' = pos
        /\ columns' = columns
        /\ columnIndex' = columnIndex
        /\ headerAtLine' = headerAtLine

\* an argument that is no non-nil pointer to a struct: an error, nothing written
Refused ==
    (ret'.op = "UnmarshalLine" /\ ret'.v # "struct") =>
        /\ ret'.outcome = "error"
        /\ ret'.err.kind \in {"notPointer", "notStruct"}
        /\ target' = target

\* a call right after another, on a target equal to the one the first call
\* started from, ends with the same target and the same outcome
Repeatable ==
    (Unmarshalled /\ ret'.op = "UnmarshalLine" /\ ret'.v = "struct" /\ target = ret.before) =>
        /\ target' = target
        /\ ret'.outcome = ret.outcome
        /\ ret'.err = ret.err

====
